---- MODULE Spec2Model ----
(***************************************************************************)
(* A model of the derived-parameter nodes of analysis/derived_parameters.py*)
(* and of the airport/runway lookup handlers of                            *)
(* analysis_engine/api_handler_analysis_engine.py.                         *)
(*                                                                         *)
(* Arrays are sequences (1-based: Python index i is position i+1).         *)
(* Floating point samples are modelled as exact rationals [n, d].          *)
(***************************************************************************)
EXTENDS Integers, Sequences, FiniteSets, TLC

VARIABLES
    node,       \* the node class (or handler) being exercised
    available,  \* names of the parameters available for the recording
    params,     \* name -> Parameter handed to derive (None when unavailable)
    fast,       \* the 'Fast' spans: sequence of [start, stop) slices
    pc,         \* position of the resolver / of derive's loop
    self,       \* the node being derived: [array, hz, offset]
    locals,     \* derive's local variables
    requests,   \* number of urls handed to _attempt_request so far
    outcome     \* what the last handler call returned or raised

vars == <<node, available, params, fast, pc, self, locals, requests, outcome>>

----------------------------------------------------------------------------
(* Bounds of the model *)

\* a channel holds at most MaxLen samples
MaxLen == 2

\* an altitude channel cut into spans holds at most MaxSamples samples
MaxSamples == 4

\* the phase segmentation supplies at most MaxSpans spans
MaxSpans == 2

\* a handler serves at most MaxCalls lookups
MaxCalls == 3

\* offsets are the fractions k / OffsetSteps of a sample period, 0 <= k < OffsetSteps
OffsetSteps == 4

----------------------------------------------------------------------------
(* Exact rational arithmetic standing in for Python floats *)

Abs(x) == IF x < 0 THEN -x ELSE x

RECURSIVE GCD(_, _)
GCD(a, b) == IF b = 0 THEN a ELSE GCD(b, a % b)

Rat(n, d) ==
    LET g == GCD(Abs(n), Abs(d))
        s == IF d < 0 THEN -1 ELSE 1
    IN  [n |-> (s * n) \div g, d |-> (s * d) \div g]

R(i) == [n |-> i, d |-> 1]
RNeg(a) == [n |-> -a.n, d |-> a.d]
RInv(a) == Rat(a.d, a.n)
RAdd(a, b) ==
    LET g == GCD(a.d, b.d)
    IN  Rat(a.n * (b.d \div g) + b.n * (a.d \div g), (a.d \div g) * b.d)
RSub(a, b) == RAdd(a, RNeg(b))
RMul(a, b) ==
    LET g1 == GCD(Abs(a.n), b.d)
        g2 == GCD(Abs(b.n), a.d)
    IN  Rat((a.n \div g1) * (b.n \div g2), (a.d \div g2) * (b.d \div g1))
RDiv(a, b) == RMul(a, RInv(b))
RLess(a, b) == a.n * b.d < b.n * a.d
RLeq(a, b) == a.n * b.d <= b.n * a.d
RMin(a, b) == IF RLess(b, a) THEN b ELSE a
RMax(a, b) == IF RLess(a, b) THEN b ELSE a

\* an integer array as an array of floats
ToR(xs) == [i \in 1..Len(xs) |-> R(xs[i])]

Min2(a, b) == IF b < a THEN b ELSE a
Max2(a, b) == IF a < b THEN b ELSE a

----------------------------------------------------------------------------
(* numpy elementwise arithmetic with broadcasting of length-1 arrays *)

Compatible(xs, ys) == Len(xs) = Len(ys) \/ Len(xs) = 1 \/ Len(ys) = 1

At(xs, i) == IF Len(xs) = 1 THEN xs[1] ELSE xs[i]

EwAdd(xs, ys) == [i \in 1..Max2(Len(xs), Len(ys)) |-> RAdd(At(xs, i), At(ys, i))]
EwSub(xs, ys) == [i \in 1..Max2(Len(xs), Len(ys)) |-> RSub(At(xs, i), At(ys, i))]
EwMul(xs, ys) == [i \in 1..Max2(Len(xs), Len(ys)) |-> RMul(At(xs, i), At(ys, i))]
Scale(xs, k) == [i \in 1..Len(xs) |-> RMul(xs[i], k)]
Unscale(xs, k) == [i \in 1..Len(xs) |-> RDiv(xs[i], k)]

----------------------------------------------------------------------------
(* settings *)

\* time constants in seconds, gravity in ft/s^2, knots to ft/s
RATE_OF_CLIMB_LAG_TC == 1
AZ_WASHOUT_TC == 2
GRAVITY == R(32)
KTS_TO_FPS == Rat(27, 16)

----------------------------------------------------------------------------
(* Parameters *)

None == [none |-> TRUE]

\* numpy.ma.nomask: the mask of an array that has no masked sample
nomask == <<>>

\* a Parameter whose array has no masked sample
P(rate, off, arr) == [hz |-> rate, offset |-> off, array |-> arr, mask |-> nomask]

\* the same Parameter with the samples flagged by m masked; the array keeps
\* the values stored under the mask
Masked(param, m) == [param EXCEPT !.mask = m]

\* whether sample i of an array with this mask is masked, a one-sample array
\* being broadcast
MaskAt(mask, i) ==
    IF mask = nomask THEN FALSE
    ELSE IF Len(mask) = 1 THEN mask[1] ELSE mask[i]

\* the masks of arrays of length n with at least one and at most n - 1
\* masked samples
Masks(n) == { m \in [1..n -> BOOLEAN] :
                (\E i \in 1..n : m[i]) /\ (\E i \in 1..n : ~m[i]) }

\* Python truthiness of a derive argument: None is false, a Parameter true
Truthy(p) == p # None

\* arrays of length n over the values vs
Arrays(n, vs) == [1..n -> vs]

----------------------------------------------------------------------------
(* analysis.library: the signal primitives and filters the nodes call *)

\* rate_of_change(param, half_width): slope over a window of half_width
\* seconds either side of each sample, clipped at the ends of the array,
\* in units per second
rate_of_change(param, half_width) ==
    LET xs == param.array
        n  == Len(xs)
        hw == half_width * param.hz
    IN  [i \in 1..n |->
            LET lo == Max2(i - hw, 1)
                hi == Min2(i + hw, n)
            IN  IF hi = lo THEN R(0)
                ELSE RDiv(RMul(RSub(xs[hi], xs[lo]), R(param.hz)), R(hi - lo))]

\* repair_mask(array): interpolates over short masked runs; an array with
\* no masked sample is returned as it is
repair_mask(array) == array

\* repair_mask of a masked array: a masked sample between two valid samples
\* is the shortest run; it is filled by interpolation between them and is
\* valid afterwards, samples of longer runs and at the ends stay masked
masked_repair_mask(array, mask) ==
    LET short(i) == /\ MaskAt(mask, i)
                    /\ 1 < i /\ i < Len(array)
                    /\ ~MaskAt(mask, i - 1) /\ ~MaskAt(mask, i + 1)
        left == { i \in 1..Len(array) : MaskAt(mask, i) /\ ~short(i) }
    IN  [array |-> [i \in 1..Len(array) |->
                       IF short(i) THEN (array[i - 1] + array[i + 1]) \div 2
                       ELSE array[i]],
         mask  |-> IF left = {} THEN nomask
                   ELSE [i \in 1..Len(array) |-> i \in left]]

\* first_order_washout: single-pole high-pass filter (bilinear transform),
\* y[k] = b0 * (x[k] - x[k-1]) - a1 * y[k-1], started at rest on initial_value
RECURSIVE WashoutAt(_, _, _, _, _)
WashoutAt(xs, k, b0, a1, initial_value) ==
    IF k = 0 THEN R(0)
    ELSE RSub(RMul(b0, RSub(xs[k], IF k = 1 THEN initial_value ELSE xs[k - 1])),
              RMul(a1, WashoutAt(xs, k - 1, b0, a1, initial_value)))

first_order_washout(xs, time_constant, hz, gain, initial_value) ==
    LET tc == time_constant * hz
        b0 == RDiv(RMul(gain, R(2 * tc)), R(1 + 2 * tc))
        a1 == Rat(1 - 2 * tc, 1 + 2 * tc)
    IN  [k \in 1..Len(xs) |-> WashoutAt(xs, k, b0, a1, initial_value)]

\* first_order_lag: single-pole low-pass filter (bilinear transform),
\* y[k] = c * (x[k] + x[k-1]) - a1 * y[k-1], started settled on initial_value
RECURSIVE LagAt(_, _, _, _, _, _)
LagAt(xs, k, c, a1, gain, initial_value) ==
    IF k = 0 THEN RMul(gain, initial_value)
    ELSE RSub(RMul(c, RAdd(xs[k], IF k = 1 THEN initial_value ELSE xs[k - 1])),
              RMul(a1, LagAt(xs, k - 1, c, a1, gain, initial_value)))

first_order_lag(xs, time_constant, hz, gain, initial_value) ==
    LET tc == time_constant * hz
        c  == RDiv(gain, R(1 + 2 * tc))
        a1 == Rat(1 - 2 * tc, 1 + 2 * tc)
    IN  [k \in 1..Len(xs) |-> LagAt(xs, k, c, a1, gain, initial_value)]

\* the filters' default initial value: the first sample of the input
DefaultInitial(xs) == xs[1]

\* the samples among the first k of xs that are not masked, in order
RECURSIVE ValidPrefix(_, _, _)
ValidPrefix(xs, mask, k) ==
    IF k = 0 THEN <<>>
    ELSE IF MaskAt(mask, k) THEN ValidPrefix(xs, mask, k - 1)
    ELSE Append(ValidPrefix(xs, mask, k - 1), xs[k])

\* a filter over a masked array holds its state at a masked sample: the
\* valid samples alone drive the filter (ys is its output over them), and a
\* masked sample repeats the output of the valid sample before it, or the
\* filter's output at rest when there is none
HoldState(xs, mask, ys, rest) ==
    [k \in 1..Len(xs) |->
        LET seen == Len(ValidPrefix(xs, mask, k))
        IN  IF seen = 0 THEN rest ELSE ys[seen]]

\* first_order_washout of a masked array, its default initial value being
\* the first valid sample
masked_first_order_washout(xs, mask, time_constant, hz, gain) ==
    LET valid == ValidPrefix(xs, mask, Len(xs))
    IN  HoldState(xs, mask,
                  first_order_washout(valid, time_constant, hz, gain,
                                      DefaultInitial(valid)),
                  R(0))

\* the mask of a filter's output: the filters either carry the mask of their
\* input over to their output, or publish the held samples as valid
FilterMask(mask, carries) == IF carries THEN mask ELSE nomask

\* the mask of an elementwise expression over two masked arrays, n samples
\* long: a sample is masked when it is masked in either operand
MaskOr(m1, m2, n) ==
    IF m1 = nomask /\ m2 = nomask THEN nomask
    ELSE [i \in 1..n |-> MaskAt(m1, i) \/ MaskAt(m2, i)]

----------------------------------------------------------------------------
(* The resolver's bookkeeping shared by every node *)

NoSelf == [array |-> <<>>, hz |-> 0, offset |-> 0, mask |-> nomask]

\* sample rates a channel is recorded at
HzSet == {1, 2}

\* recordings last a whole number of seconds
Durations == 1..MaxLen

\* channels of a recording lasting dur seconds, samples drawn from vs:
\* a channel recorded at hz holds hz * dur samples
Channels(dur, vs) ==
    UNION { { P(hz, 0, ToR(a)) : a \in Arrays(hz * dur, vs) } :
            hz \in { h \in HzSet : h * dur <= MaxLen } }

\* what the resolver hands to derive for a dependency name
Given(avail, nm, choice) == IF nm \in avail THEN choice ELSE {None}

----------------------------------------------------------------------------
(* class RateOfClimb *)

RateOfClimb_deps == {"Acceleration Vertical", "Altitude STD", "Altitude Radio"}

RateOfClimb_can_operate(avail) ==
    IF "Altitude STD" \in avail THEN TRUE ELSE FALSE

\* the test that selects the complementary smoothing approach
RateOfClimb_primary(az, alt_rad) == Truthy(az) /\ Truthy(alt_rad)

\* up to 50 ft radio 0 < std_rad_ratio < 1 over 100ft radio
std_rad_ratio_mutant(alt_rad_data) ==
    [i \in 1..Len(alt_rad_data) |->
        RMax(RMin(RDiv(RSub(alt_rad_data[i], R(50)), R(100)), R(1)), R(0))]
std_rad_ratio(alt_rad_data) ==
    [i \in 1..Len(alt_rad_data) |->
        RMax(RMin(RDiv(RSub(alt_rad_data[i], R(50)), R(50)), R(1)), R(0))]

OneMinus(xs) == [i \in 1..Len(xs) |-> RSub(R(1), xs[i])]

\* the time base of an array computed from a channel without resampling:
\* the channel's rate and offset, and the array's length
Timebase(param, array) ==
    [hz |-> param.hz, offset |-> param.offset, length |-> Len(array)]

\* the locals of the complementary smoothing approach, up to the first
\* elementwise expression whose operands cannot be broadcast together
RateOfClimb_smoothing(az, alt_std, alt_rad, carries) ==
    LET roc_alt_std == masked_first_order_washout(alt_std.array, alt_std.mask,
                           RATE_OF_CLIMB_LAG_TC, az.hz, R(1))
        roc_alt_rad == masked_first_order_washout(alt_rad.array, alt_rad.mask,
                           RATE_OF_CLIMB_LAG_TC, az.hz, R(1))
        roc_alt_std_mask == FilterMask(alt_std.mask, carries)
        roc_alt_rad_mask == FilterMask(alt_rad.mask, carries)
        ratio       == std_rad_ratio(alt_rad.array)
        blendable   == Compatible(roc_alt_std, ratio)
        blend       == EwAdd(EwMul(roc_alt_std, ratio),
                             EwMul(roc_alt_rad, OneMinus(ratio)))
        blend_mask  == MaskOr(roc_alt_std_mask, roc_alt_rad_mask, Len(blend))
        roc_altitude == Unscale(blend, R(RATE_OF_CLIMB_LAG_TC))
        az_washout  == first_order_washout(az.array, AZ_WASHOUT_TC, az.hz,
                           R(1), az.array[1])
        inertial_roc == first_order_lag(az_washout, RATE_OF_CLIMB_LAG_TC, az.hz,
                           RMul(GRAVITY, R(RATE_OF_CLIMB_LAG_TC)),
                           DefaultInitial(az_washout))
        \* the arrays the elementwise expressions combine; none of them
        \* has been through align
        operands == [roc_alt_std   |-> Timebase(alt_std, roc_alt_std),
                     roc_alt_rad   |-> Timebase(alt_rad, roc_alt_rad),
                     std_rad_ratio |-> Timebase(alt_rad, ratio),
                     inertial_roc  |-> Timebase(az, inertial_roc)]
    IN  IF ~blendable
        THEN [raised |-> "ValueError", path |-> "smoothing", operands |-> operands,
              roc_alt_rad_mask |-> roc_alt_rad_mask,
              roc_alt_std |-> roc_alt_std, roc_alt_rad |-> roc_alt_rad,
              std_rad_ratio |-> ratio]
        ELSE IF ~Compatible(roc_altitude, inertial_roc)
        THEN [raised |-> "ValueError", path |-> "smoothing", operands |-> operands,
              roc_alt_rad_mask |-> roc_alt_rad_mask,
              roc_alt_std |-> roc_alt_std, roc_alt_rad |-> roc_alt_rad,
              std_rad_ratio |-> ratio, blend |-> blend,
              roc_altitude |-> roc_altitude, inertial_roc |-> inertial_roc]
        ELSE [raised |-> "", path |-> "smoothing", operands |-> operands,
              roc_alt_rad_mask |-> roc_alt_rad_mask,
              roc_alt_std |-> roc_alt_std, roc_alt_rad |-> roc_alt_rad,
              std_rad_ratio |-> ratio, blend |-> blend,
              roc_altitude |-> roc_altitude, inertial_roc |-> inertial_roc,
              array |-> Scale(EwAdd(roc_altitude, inertial_roc), R(60)),
              mask |-> MaskOr(blend_mask, FilterMask(az.mask, carries),
                              Max2(Len(roc_altitude), Len(inertial_roc)))]

RateOfClimb_fallback_mutant(alt_std) ==
    [raised |-> "", path |-> "fallback",
     array |-> rate_of_change(alt_std, 2), mask |-> alt_std.mask]
RateOfClimb_fallback(alt_std) ==
    [raised |-> "", path |-> "fallback",
     array |-> Scale(rate_of_change(alt_std, 2), R(60)), mask |-> alt_std.mask]

RateOfClimb_run(az, alt_std, alt_rad, carries) ==
    IF RateOfClimb_primary(az, alt_rad)
    THEN RateOfClimb_smoothing(az, alt_std, alt_rad, carries)
    ELSE RateOfClimb_fallback(alt_std)

\* the channels chans with some, not all, of their samples masked
Dropouts(chans) ==
    UNION { { Masked(c, m) : m \in Masks(Len(c.array)) } : c \in chans }

\* samples of the recorded channels
AltStdValues == {0, 10}
AltRadValues == {25, 50, 75, 100, 125}
AzValues == {0, 1}

\* samples of a radio altitude channel with masked samples, the values
\* stored under the mask included
DropoutAltRadValues == {25, 125}

InitRateOfClimb ==
    /\ node = "RateOfClimb"
    /\ available \in SUBSET RateOfClimb_deps
    /\ \E dur \in Durations :
        \E az \in Given(available, "Acceleration Vertical", Channels(dur, AzValues)),
           alt_std \in Given(available, "Altitude STD", Channels(dur, AltStdValues)),
           alt_rad \in Given(available, "Altitude Radio",
                              Channels(dur, AltRadValues) \cup
                              Dropouts(Channels(dur, DropoutAltRadValues))) :
            params = [az |-> az, alt_std |-> alt_std, alt_rad |-> alt_rad]
    /\ fast = <<>>
    /\ pc = "resolve"
    /\ self = NoSelf
    /\ locals = None
    /\ requests = 0
    /\ outcome = ""

\* the resolver asks the node whether it can be computed for this recording
RateOfClimb_resolve ==
    /\ node = "RateOfClimb" /\ pc = "resolve"
    /\ pc' = IF RateOfClimb_can_operate(available) THEN "derive" ELSE "skipped"
    /\ UNCHANGED <<node, available, params, fast, self, locals, requests, outcome>>

RateOfClimb_derive ==
    /\ node = "RateOfClimb" /\ pc = "derive"
    /\ \E carries \in BOOLEAN :
        LET r == RateOfClimb_run(params.az, params.alt_std, params.alt_rad, carries)
        IN  /\ locals' = r
            /\ outcome' = r.raised
            /\ pc' = IF r.raised = "" THEN "done" ELSE "raised"
            /\ self' = IF r.raised = ""
                       THEN [self EXCEPT !.array = r.array, !.mask = r.mask]
                       ELSE self
    /\ UNCHANGED <<node, available, params, fast, requests>>

NextRateOfClimb == RateOfClimb_resolve \/ RateOfClimb_derive

SpecRateOfClimb == InitRateOfClimb /\ [][NextRateOfClimb]_vars

\* a derive that has run to its end or to an exception
Finished == pc \in {"done", "raised"}

\* C1: RateOfClimb can operate exactly when 'Altitude STD' is available,
\* whatever else is; when vertical acceleration or radio altitude (or both)
\* is missing, derive publishes rate_of_change(alt_std, 2) * 60 unfiltered,
\* and the complementary smoothing path runs only when both are present.
C1_FallbackWhenEitherMissing ==
    node = "RateOfClimb" =>
        /\ pc # "resolve" => (pc # "skipped" <=> "Altitude STD" \in available)
        /\ (Finished /\ (params.az = None \/ params.alt_rad = None)) =>
                /\ pc = "done"
                /\ locals.path = "fallback"
                /\ self.array = [i \in 1..Len(params.alt_std.array) |->
                       RMul(rate_of_change(params.alt_std, 2)[i], R(60))]
        /\ (Finished /\ locals.path = "smoothing") =>
                (params.az # None /\ params.alt_rad # None)

\* C1 witness: only the accelerometer is missing next to the barometric
\* altitude, and the fallback published a non-zero rate of climb
C1_Witness ==
    /\ node = "RateOfClimb" /\ pc = "done"
    /\ params.az = None /\ params.alt_rad # None
    /\ locals.path = "fallback"
    /\ \E i \in 1..Len(self.array) : self.array[i] # R(0)

\* C3: on the smoothing path the changeover ratio of every sample lies in
\* [0, 1], is 0 at or below 50 ft of radio altitude and 1 at or above 100 ft;
\* the blended rate of a sample is the radio-altitude term when its ratio is
\* 0 and the barometric term when its ratio is 1.
C3_ChangeoverRatio ==
    (node = "RateOfClimb" /\ Finished /\ locals.path = "smoothing") =>
        /\ \A i \in 1..Len(params.alt_rad.array) :
            LET ft == params.alt_rad.array[i]
                ratio == locals.std_rad_ratio[i]
            IN  /\ RLeq(R(0), ratio) /\ RLeq(ratio, R(1))
                /\ RLeq(ft, R(50)) => ratio = R(0)
                /\ RLeq(R(100), ft) => ratio = R(1)
        /\ "blend" \in DOMAIN locals =>
            \A i \in 1..Len(locals.blend) :
                LET ratio == At(locals.std_rad_ratio, i)
                IN  /\ ratio = R(0) => locals.blend[i] = At(locals.roc_alt_rad, i)
                    /\ ratio = R(1) => locals.blend[i] = At(locals.roc_alt_std, i)

\* C3 witness: one recording blended with a sample below 50 ft and a sample
\* above 100 ft, where the two altitude terms differ
C3_Witness ==
    /\ node = "RateOfClimb" /\ pc = "done" /\ locals.path = "smoothing"
    /\ \E i, j \in 1..Len(params.alt_rad.array) :
        /\ RLess(params.alt_rad.array[i], R(50))
        /\ locals.std_rad_ratio[i] = R(0)
        /\ locals.blend[i] = locals.roc_alt_rad[i]
        /\ RLess(R(100), params.alt_rad.array[j])
        /\ locals.std_rad_ratio[j] = R(1)
        /\ locals.blend[j] = At(locals.roc_alt_std, j)
        /\ At(locals.roc_alt_std, j) # locals.roc_alt_rad[j]

\* C11: the arrays the smoothing path of RateOfClimb combines elementwise
\* (the washed-out barometric and radio altitudes, the changeover ratio and
\* the inertial term) share one rate, offset and length, that of the
\* reference channel, whatever rates the three channels were recorded at.
C11_OperandsShareTimebase ==
    (node = "RateOfClimb" /\ Finished /\ locals.path = "smoothing") =>
        \A a \in DOMAIN locals.operands :
            locals.operands[a] = Timebase(params.az, params.az.array)

\* the radio altitude of the recording with v stored at sample i
WithStored(alt_rad, i, v) == [alt_rad EXCEPT !.array[i] = R(v)]

\* C13: on the smoothing path, at every sample where the radio altitude is
\* masked the value stored under the mask is not used as data: the changeover
\* ratio of that sample is the same whatever value is stored there, and the
\* rate of climb published for that sample is masked or is the same whatever
\* value is stored there.
C13_MaskedRadioAltitudeUnused ==
    (node = "RateOfClimb" /\ pc = "done" /\ locals.path = "smoothing") =>
        \A i \in 1..Len(params.alt_rad.array) :
            MaskAt(params.alt_rad.mask, i) =>
                \A v \in AltRadValues :
                    LET other == WithStored(params.alt_rad, i, v)
                        rerun == RateOfClimb_run(params.az, params.alt_std, other,
                                                 locals.roc_alt_rad_mask # nomask)
                    IN  /\ std_rad_ratio(other.array)[i] = locals.std_rad_ratio[i]
                        /\ \A j \in 1..Len(self.array) :
                              (Len(params.alt_rad.array) = 1 \/ j = i) =>
                                  \/ MaskAt(self.mask, j)
                                  \/ rerun.array[j] = self.array[j]

\* the same for the published rate of climb alone
C13_PublishedSampleMaskedOrUnaffected ==
    (node = "RateOfClimb" /\ pc = "done" /\ locals.path = "smoothing") =>
        \A i \in 1..Len(params.alt_rad.array) :
            MaskAt(params.alt_rad.mask, i) =>
                \A v \in AltRadValues :
                    LET other == WithStored(params.alt_rad, i, v)
                        rerun == RateOfClimb_run(params.az, params.alt_std, other,
                                                 locals.roc_alt_rad_mask # nomask)
                    IN  \A j \in 1..Len(self.array) :
                            (Len(params.alt_rad.array) = 1 \/ j = i) =>
                                \/ MaskAt(self.mask, j)
                                \/ rerun.array[j] = self.array[j]

\* and for the published rate of climb when the filters carry the mask over
C13_MaskedWhenFiltersCarryTheMask ==
    (node = "RateOfClimb" /\ pc = "done" /\ locals.path = "smoothing"
        /\ locals.roc_alt_rad_mask # nomask) =>
        \A i \in 1..Len(params.alt_rad.array) :
            MaskAt(params.alt_rad.mask, i) =>
                \A j \in 1..Len(self.array) :
                    (Len(params.alt_rad.array) = 1 \/ j = i) => MaskAt(self.mask, j)

----------------------------------------------------------------------------
(* class AccelerationForwardsForFlightPhases *)

AccFwd_deps == {"Acceleration Longitudinal", "Airspeed"}

AccFwd_can_operate(avail) ==
    IF "Airspeed" \in avail THEN TRUE
    ELSE IF "Acceleration Longitudinal" \in avail THEN TRUE
    ELSE FALSE

\* the test that selects the recorded longitudinal acceleration
AccFwd_use_acc_long_mutant(acc_long) == FALSE
AccFwd_use_acc_long(acc_long) == Truthy(acc_long)

\* a Parameter built with the constructor's default rate and offset
DefaultHz == 1

\* reading .array of an argument that is None raises AttributeError
AccFwd_run(acc_long, airspeed) ==
    IF AccFwd_use_acc_long(acc_long)
    THEN [raised |-> "", path |-> "recorded", reads |-> {"Acceleration Longitudinal"},
          array |-> repair_mask(acc_long.array)]
    ELSE IF airspeed = None
    THEN [raised |-> "AttributeError", path |-> "fallback", reads |-> {"Airspeed"}]
    ELSE LET aspd == P(DefaultHz, 0, repair_mask(airspeed.array))
             roc_aspd == Unscale(Scale(rate_of_change(aspd, 1), KTS_TO_FPS), GRAVITY)
         IN  [raised |-> "", path |-> "fallback", reads |-> {"Airspeed"},
              array |-> roc_aspd]

AirspeedValues == {80, 96, 112}
AccLongValues == {0, 1}

InitAccFwd ==
    /\ node = "AccelerationForwardsForFlightPhases"
    /\ available \in SUBSET AccFwd_deps
    /\ \E dur \in Durations :
        \E acc_long \in Given(available, "Acceleration Longitudinal",
                              Channels(dur, AccLongValues)),
           airspeed \in Given(available, "Airspeed", Channels(dur, AirspeedValues)) :
            params = [acc_long |-> acc_long, airspeed |-> airspeed]
    /\ fast = <<>>
    /\ pc = "resolve"
    /\ self = NoSelf
    /\ locals = None
    /\ requests = 0
    /\ outcome = ""

AccFwd_resolve ==
    /\ node = "AccelerationForwardsForFlightPhases" /\ pc = "resolve"
    /\ pc' = IF AccFwd_can_operate(available) THEN "derive" ELSE "skipped"
    /\ UNCHANGED <<node, available, params, fast, self, locals, requests, outcome>>

AccFwd_derive ==
    /\ node = "AccelerationForwardsForFlightPhases" /\ pc = "derive"
    /\ LET r == AccFwd_run(params.acc_long, params.airspeed)
       IN  /\ locals' = r
           /\ outcome' = r.raised
           /\ pc' = IF r.raised = "" THEN "done" ELSE "raised"
           /\ self' = IF r.raised = "" THEN [self EXCEPT !.array = r.array] ELSE self
    /\ UNCHANGED <<node, available, params, fast, requests>>

NextAccFwd == AccFwd_resolve \/ AccFwd_derive

SpecAccFwd == InitAccFwd /\ [][NextAccFwd]_vars

\* C2: AccelerationForwardsForFlightPhases is computed from 'Airspeed' alone
\* by its fallback branch (rate of change of the repaired airspeed scaled by
\* KTS_TO_FPS / GRAVITY), is skipped when neither input is available, and
\* whenever it can operate the branch derive takes reads only available
\* inputs and runs to its end.
C2_AirspeedAloneSuffices ==
    node = "AccelerationForwardsForFlightPhases" =>
        /\ pc = "skipped" => available = {}
        /\ (pc # "resolve" /\ available = {}) => pc = "skipped"
        /\ (Finished /\ available = {"Airspeed"}) =>
                /\ pc = "done"
                /\ locals.path = "fallback"
                /\ self.array =
                      [i \in 1..Len(params.airspeed.array) |->
                          RDiv(RMul(rate_of_change(
                                        P(1, 0, params.airspeed.array), 1)[i],
                                    KTS_TO_FPS), GRAVITY)]
        /\ Finished => (pc = "done" /\ locals.reads \subseteq available)

\* C2 witness: only 'Airspeed' was recorded and the fallback published a
\* non-zero acceleration
C2_Witness ==
    /\ node = "AccelerationForwardsForFlightPhases" /\ pc = "done"
    /\ available = {"Airspeed"}
    /\ locals.path = "fallback"
    /\ \E i \in 1..Len(self.array) : self.array[i] # R(0)

----------------------------------------------------------------------------
(* 'Fast' spans and the altitude channels they cut *)

\* altitudes in whole feet
AltitudeValues == {90, 100, 110}

\* the altitude sequence of the documented climb scenario
ScenarioAltitude == <<100, 110, 90, 95, 120>>

AltitudeArrays ==
    UNION { Arrays(n, AltitudeValues) : n \in 1..MaxSamples } \cup {ScenarioAltitude}

\* a slice [start, stop) of Python indices
Slices(n) == { [start |-> a, stop |-> b] : a \in 0..(n - 1), b \in 1..n }

\* ordered, non-overlapping, non-empty spans over an array of n samples
RECURSIVE SpanLists(_, _, _)
SpanLists(n, from, k) ==
    {<<>>} \cup
    (IF k = 0 THEN {}
     ELSE UNION { { <<sl>> \o rest : rest \in SpanLists(n, sl.stop, k - 1) } :
                  sl \in { x \in Slices(n) : x.start >= from /\ x.start < x.stop } })

\* numpy.ma.zeros(n)
Zeros(n) == [i \in 1..n |-> 0]

----------------------------------------------------------------------------
(* class ClimbForFlightPhases *)

\* one pass of the body of the inner loop: the sample at count, the sample
\* before it and the tracked altitude give the new tracked altitude and the
\* sample written to self.array
Climb_body_mutant_le(now, before, curr_alt) ==
    IF now <= before
    THEN [curr_alt |-> now, out |-> 0]
    ELSE [curr_alt |-> curr_alt, out |-> now - curr_alt]
Climb_body_mutant_keep(now, before, curr_alt) ==
    IF now < before
    THEN [curr_alt |-> curr_alt, out |-> 0]
    ELSE [curr_alt |-> curr_alt, out |-> now - curr_alt]
Climb_body_mutant_min(now, before, curr_alt) ==
    IF now < before
    THEN [curr_alt |-> Min2(now, curr_alt), out |-> 0]
    ELSE [curr_alt |-> curr_alt, out |-> now - curr_alt]
Climb_body(now, before, curr_alt) ==
    IF now < before
    THEN [curr_alt |-> now, out |-> 0]
    ELSE [curr_alt |-> curr_alt, out |-> now - curr_alt]

InitClimb ==
    /\ node = "ClimbForFlightPhases"
    /\ available = {"Altitude STD", "Fast"}
    /\ \E a \in AltitudeArrays :
        /\ params = [alt_std |-> P(1, 0, a)]
        /\ fast \in SpanLists(Len(a), 0, MaxSpans)
    /\ pc = "derive"
    /\ self = NoSelf
    /\ locals = None
    /\ requests = 0
    /\ outcome = ""

\* self.array = np.ma.zeros(len(alt_std.array)), then the loop over the
\* spans; repair_mask(alt_std.array) finds no masked sample to repair in the
\* altitudes of these recordings
Climb_begin ==
    /\ node = "ClimbForFlightPhases" /\ pc = "derive"
    /\ self' = [self EXCEPT !.array = Zeros(Len(params.alt_std.array))]
    /\ locals' = [air |-> 1, curr_alt |-> 0, count |-> 0]
    /\ pc' = "for air"
    /\ UNCHANGED <<node, available, params, fast, requests, outcome>>

\* for air in airs: the next span, its first sample, or the end of derive
Climb_next_air ==
    /\ node = "ClimbForFlightPhases" /\ pc = "for air"
    /\ IF locals.air > Len(fast)
       THEN /\ pc' = "done"
            /\ UNCHANGED <<self, locals>>
       ELSE LET ax == fast[locals.air]
            IN  /\ locals' = [locals EXCEPT
                                 !.curr_alt = params.alt_std.array[ax.start + 1],
                                 !.count = 1]
                /\ self' = [self EXCEPT !.array[ax.start + 1] = 0]
                /\ pc' = "for count"
    /\ UNCHANGED <<node, available, params, fast, requests, outcome>>

\* for count in range(1, ax.stop - ax.start): one sample of the span
Climb_step ==
    /\ node = "ClimbForFlightPhases" /\ pc = "for count"
    /\ LET ax == fast[locals.air]
           at == ax.start + locals.count + 1
       IN  IF locals.count < ax.stop - ax.start
           THEN LET b == Climb_body(params.alt_std.array[at],
                                    params.alt_std.array[at - 1], locals.curr_alt)
                IN  /\ locals' = [locals EXCEPT !.curr_alt = b.curr_alt,
                                                !.count = @ + 1]
                    /\ self' = [self EXCEPT !.array[at] = b.out]
                    /\ pc' = "for count"
           ELSE /\ locals' = [locals EXCEPT !.air = @ + 1]
                /\ pc' = "for air"
                /\ UNCHANGED self
    /\ UNCHANGED <<node, available, params, fast, requests, outcome>>

NextClimb == Climb_begin \/ Climb_next_air \/ Climb_step

SpecClimb == InitClimb /\ [][NextClimb]_vars

\* the offset within a span of the sample that last set the tracked
\* altitude: the latest sample up to offset c that starts the span or is
\* lower than the sample before it
RECURSIVE LastReset(_, _, _)
LastReset(alt, start, c) ==
    IF c = 0 \/ alt[start + c + 1] < alt[start + c]
    THEN c
    ELSE LastReset(alt, start, c - 1)

\* C4: when ClimbForFlightPhases has run, each span's first sample and every
\* sample lower than the one before it is 0, and every other sample of a
\* span is the altitude less the tracked floor; the altitudes
\* [100,110,90,95,120] over one span give [0,10,0,5,30].
C4_ClimbSinceLastDescent ==
    (node = "ClimbForFlightPhases" /\ pc = "done") =>
        LET alt == params.alt_std.array
        IN  /\ \A s \in 1..Len(fast) :
                \A c \in 0..(fast[s].stop - fast[s].start - 1) :
                    LET at == fast[s].start + c + 1
                    IN  IF c = 0 \/ alt[at] < alt[at - 1]
                        THEN self.array[at] = 0
                        ELSE self.array[at] =
                                alt[at] - alt[fast[s].start + LastReset(alt, fast[s].start, c) + 1]
            /\ (alt = ScenarioAltitude /\ fast = <<[start |-> 0, stop |-> 5]>>) =>
                    self.array = <<0, 10, 0, 5, 30>>

\* C4 witness: the documented scenario has run to its end
C4_Witness ==
    /\ node = "ClimbForFlightPhases" /\ pc = "done"
    /\ params.alt_std.array = ScenarioAltitude
    /\ fast = <<[start |-> 0, stop |-> 5]>>
    /\ self.array = <<0, 10, 0, 5, 30>>

\* a step of the inner loop that processes one sample
ClimbSampleStep == pc = "for count" /\ pc' = "for count"

\* the 1-based position of the sample the inner loop is about to process
ClimbAt == fast[locals.air].start + locals.count + 1

\* C5 as stated: within a span the tracked floor never rises from one sample
\* to the next, and changes only at a sample lower than the one before it.
C5_FloorNeverRises ==
    [][ (node = "ClimbForFlightPhases" /\ ClimbSampleStep) =>
            /\ locals'.curr_alt <= locals.curr_alt
            /\ locals'.curr_alt # locals.curr_alt =>
                   params.alt_std.array[ClimbAt] < params.alt_std.array[ClimbAt - 1]
      ]_vars

\* C5 amended: within a span the tracked floor changes only at a sample
\* lower than the one before it, where it becomes that sample's altitude:
\* it is then below the previous sample but may be above the previous floor.
C5_FloorFollowsDescents ==
    [][ (node = "ClimbForFlightPhases" /\ ClimbSampleStep) =>
            LET now == params.alt_std.array[ClimbAt]
                before == params.alt_std.array[ClimbAt - 1]
            IN  /\ locals'.curr_alt # locals.curr_alt => now < before
                /\ now < before =>
                      (locals'.curr_alt = now /\ locals'.curr_alt < before)
      ]_vars

\* C5 witness: inside a span the tracked floor stands above the altitude of
\* the span's first sample, so it has risen
C5_Witness ==
    /\ node = "ClimbForFlightPhases" /\ pc = "for count"
    /\ locals.count > 1
    /\ locals.curr_alt > params.alt_std.array[fast[locals.air].start + 1]

\* C15: for unmasked altitudes and non-overlapping spans every sample of the
\* output of ClimbForFlightPhases is non-negative: the tracked floor is never
\* above the sample last processed, so inside a span a sample is 0 or the
\* altitude less a floor not above it, and outside every span it is 0.
C15_ClimbNonNegative ==
    (node = "ClimbForFlightPhases" /\ pc # "derive") =>
        LET alt == params.alt_std.array
        IN  /\ \A i \in 1..Len(self.array) : self.array[i] >= 0
            /\ pc = "for count" => locals.curr_alt <= alt[ClimbAt - 1]
            /\ pc = "done" =>
                  \A i \in 1..Len(alt) :
                      IF \E s \in 1..Len(fast) :
                            fast[s].start < i /\ i <= fast[s].stop
                      THEN \/ self.array[i] = 0
                           \/ \E j \in 1..i : /\ alt[j] <= alt[i]
                                               /\ self.array[i] = alt[i] - alt[j]
                      ELSE self.array[i] = 0

\* C15 witness: a finished run over a span with a descent followed by a
\* climb, measured from the floor set at the descent, and a sample outside
\* every span
C15_Witness ==
    /\ node = "ClimbForFlightPhases" /\ pc = "done"
    /\ \E s \in 1..Len(fast) :
         \E i \in (fast[s].start + 2)..(fast[s].stop - 1) :
            /\ params.alt_std.array[i] < params.alt_std.array[i - 1]
            /\ self.array[i] = 0
            /\ self.array[i + 1] > 0
            /\ self.array[i + 1] = params.alt_std.array[i + 1] - params.alt_std.array[i]
    /\ \E i \in 1..Len(self.array) :
         /\ \A s \in 1..Len(fast) : ~(fast[s].start < i /\ i <= fast[s].stop)
         /\ self.array[i] = 0

----------------------------------------------------------------------------
(* class AltitudeAALForFlightPhases *)

\* np.ma.argmax: the offset of the first greatest sample of alt[begin:end],
\* a masked sample counting as lower than every valid one
RECURSIVE ArgMax(_, _, _, _)
ArgMax(alt, mask, begin, end) ==
    IF end - begin = 1 THEN 0
    ELSE LET rest == ArgMax(alt, mask, begin, end - 1)
             best == begin + rest + 1
         IN  IF /\ ~MaskAt(mask, end)
                /\ (MaskAt(mask, best) \/ alt[end] > alt[best])
             THEN end - begin - 1 ELSE rest

\* array[lo:hi] = alt[lo:hi] - ref, Python indices
AssignLess(array, alt, lo, hi, ref) ==
    [i \in 1..Len(array) |->
        IF lo + 1 <= i /\ i <= hi THEN alt[i] - ref ELSE array[i]]

\* the mask that assignment leaves: a sample of the difference is masked
\* when its altitude or the reference altitude is
AssignLessMask(mask, alt_mask, n, lo, hi, ref_masked) ==
    LET m == [i \in 1..n |->
                 IF lo + 1 <= i /\ i <= hi
                 THEN MaskAt(alt_mask, i) \/ ref_masked
                 ELSE MaskAt(mask, i)]
    IN  IF \A i \in 1..n : ~m[i] THEN nomask ELSE m

\* the body of the loop for one span: the slice before the peak is referred
\* to the altitude at begin, the slice from the peak to the altitude at
\* index end, which lies past the array when end = len(alt)
AAL_body(array, mask, alt_std, begin, end) ==
    LET alt == alt_std.array
        n == Len(alt)
        peak == ArgMax(alt, alt_std.mask, begin, end)
        first == AssignLess(array, alt, begin, begin + peak, alt[begin + 1])
        first_mask == AssignLessMask(mask, alt_std.mask, n, begin, begin + peak,
                                     MaskAt(alt_std.mask, begin + 1))
    IN  IF end >= n
        THEN [raised |-> "IndexError", array |-> first, mask |-> first_mask]
        ELSE [raised |-> "",
              array |-> AssignLess(first, alt, begin + peak, end, alt[end + 1]),
              mask |-> AssignLessMask(first_mask, alt_std.mask, n, begin + peak,
                                      end, MaskAt(alt_std.mask, end + 1))]

\* the Python indices the body uses for one span: the samples of the slices
\* alt_std.array[begin:end] and self.array[begin:end], and the two scalar
\* subscripts alt_std.array[begin] and alt_std.array[end]
AAL_indices(begin, end) == (begin..(end - 1)) \cup {begin, end}

\* the altitude channels of the recordings: AltitudeArrays, and the arrays
\* over AltitudeValues with some, not all, of their samples masked
AltitudeChannels ==
    { P(1, 0, a) : a \in AltitudeArrays } \cup
    UNION { Dropouts({ P(1, 0, a) : a \in Arrays(n, AltitudeValues) }) :
            n \in 1..MaxSamples }

InitAAL ==
    /\ node = "AltitudeAALForFlightPhases"
    /\ available = {"Altitude STD", "Fast"}
    /\ \E alt_std \in AltitudeChannels :
        /\ params = [alt_std |-> alt_std]
        /\ fast \in SpanLists(Len(alt_std.array), 0, MaxSpans)
    /\ pc = "derive"
    /\ self = NoSelf
    /\ locals = None
    /\ requests = 0
    /\ outcome = ""

\* self.array = np.ma.zeros(len(alt_std.array)); repair_mask(alt_std.array),
\* whose result is dropped: the call either repairs the array of the
\* 'Altitude STD' parameter in place or leaves it as it is and answers with a
\* repaired copy that is lost
AAL_begin ==
    /\ node = "AltitudeAALForFlightPhases" /\ pc = "derive"
    /\ self' = [self EXCEPT !.array = Zeros(Len(params.alt_std.array))]
    /\ \E in_place \in BOOLEAN :
        LET repaired == masked_repair_mask(params.alt_std.array, params.alt_std.mask)
        IN  params' = IF in_place
                      THEN [params EXCEPT !.alt_std.array = repaired.array,
                                          !.alt_std.mask = repaired.mask]
                      ELSE params
    /\ locals' = [speedy |-> 1, indexed |-> {}]
    /\ pc' = "for speedy"
    /\ UNCHANGED <<node, available, fast, requests, outcome>>

\* for speedy in fast: one span, or the end of derive
AAL_span ==
    /\ node = "AltitudeAALForFlightPhases" /\ pc = "for speedy"
    /\ IF locals.speedy > Len(fast)
       THEN /\ pc' = "done"
            /\ UNCHANGED <<self, locals, outcome>>
       ELSE LET sl == fast[locals.speedy]
                r == AAL_body(self.array, self.mask, params.alt_std,
                              sl.start, sl.stop)
            IN  /\ self' = [self EXCEPT !.array = r.array, !.mask = r.mask]
                /\ outcome' = r.raised
                /\ pc' = IF r.raised = "" THEN "for speedy" ELSE "raised"
                /\ locals' = [locals EXCEPT
                                 !.speedy = IF r.raised = "" THEN @ + 1 ELSE @,
                                 !.indexed = @ \cup AAL_indices(sl.start, sl.stop)]
    /\ UNCHANGED <<node, available, params, fast, requests>>

NextAAL == AAL_begin \/ AAL_span

SpecAAL == InitAAL /\ [][NextAAL]_vars

\* whether the Python index i lies in one of the spans
InSomeSpan(i) == \E s \in 1..Len(fast) : fast[s].start <= i /\ i < fast[s].stop

\* the samples the claim gives a finished AltitudeAALForFlightPhases
AALAsClaimed ==
    LET alt == params.alt_std.array
    IN  /\ Len(self.array) = Len(alt)
        /\ \A i \in 0..(Len(alt) - 1) : ~InSomeSpan(i) => self.array[i + 1] = 0
        /\ \A s \in 1..Len(fast) :
            LET begin == fast[s].start
                end == fast[s].stop
                peak == ArgMax(alt, params.alt_std.mask, begin, end)
            IN  \A i \in begin..(end - 1) :
                    IF i < begin + peak
                    THEN self.array[i + 1] = alt[i + 1] - alt[begin + 1]
                    ELSE self.array[i + 1] = alt[i + 1] - alt[end + 1]

\* C6 as stated: for every list of spans AltitudeAALForFlightPhases produces
\* an array as long as the altitude, zero outside the spans, referred to the
\* altitude at the span's start before the peak and to the altitude at the
\* span's end from the peak on.
C6_AALPerSpan ==
    (node = "AltitudeAALForFlightPhases" /\ Finished) =>
        (pc = "done" /\ AALAsClaimed)

\* what the code does keep: the claimed samples whenever derive runs to its
\* end, which it does when no span stops at the end of the array
C6_AALWhenNoSpanReachesTheEnd ==
    (node = "AltitudeAALForFlightPhases" /\ pc = "done") => AALAsClaimed

\* a recording with MaxSpans spans, none reaching the end of the array, for
\* which derive ran to its end with heights above and below the references
C6_RanToItsEnd ==
    /\ node = "AltitudeAALForFlightPhases" /\ pc = "done"
    /\ Len(fast) = MaxSpans
    /\ \E i \in 1..Len(self.array) : self.array[i] > 0
    /\ \E i \in 1..Len(self.array) : self.array[i] < 0

\* C12: for every list of half-open spans within the altitude array, a span
\* stopping at the end of the array included, AltitudeAALForFlightPhases uses
\* no index outside [0, len(altitude)) and runs to its end with an output as
\* long as the altitude.
C12_SpanIndicesInRange ==
    (node = "AltitudeAALForFlightPhases" /\ pc # "derive") =>
        /\ locals.indexed \subseteq 0..(Len(params.alt_std.array) - 1)
        /\ Finished => (pc = "done" /\ Len(self.array) = Len(params.alt_std.array))

\* the output of the loop over the first k spans for the altitude alt_std
RECURSIVE AALOver(_, _)
AALOver(alt_std, k) ==
    IF k = 0
    THEN [array |-> Zeros(Len(alt_std.array)), mask |-> nomask]
    ELSE LET before == AALOver(alt_std, k - 1)
         IN  AAL_body(before.array, before.mask, alt_std,
                      fast[k].start, fast[k].stop)

\* C14: AltitudeAALForFlightPhases writes nothing but its own output: no
\* step of derive changes the samples or the mask of 'Altitude STD' (or the
\* spans), although derive calls repair_mask on that array and drops the
\* result; and the output it finishes with is the one computed from the
\* repaired altitude.
C14_InputsKeptOutputFromRepaired ==
    [][ node = "AltitudeAALForFlightPhases" =>
            /\ params' = params
            /\ fast' = fast
            /\ (pc # "done" /\ pc' = "done") =>
                  LET repaired == masked_repair_mask(params.alt_std.array,
                                                     params.alt_std.mask)
                      expected == AALOver([params.alt_std EXCEPT
                                              !.array = repaired.array,
                                              !.mask = repaired.mask], Len(fast))
                  IN  /\ self'.array = expected.array
                      /\ self'.mask = expected.mask
      ]_vars

\* the first half alone: no step of derive changes an input
C14_InputsKept ==
    [][ node = "AltitudeAALForFlightPhases" => (params' = params /\ fast' = fast)
      ]_vars

\* the second half alone: the output is the one computed from the repaired
\* altitude
C14_OutputFromRepaired ==
    [][ (node = "AltitudeAALForFlightPhases" /\ pc # "done" /\ pc' = "done") =>
            LET repaired == masked_repair_mask(params.alt_std.array,
                                               params.alt_std.mask)
                expected == AALOver([params.alt_std EXCEPT
                                        !.array = repaired.array,
                                        !.mask = repaired.mask], Len(fast))
            IN  self'.array = expected.array /\ self'.mask = expected.mask
      ]_vars

----------------------------------------------------------------------------
(* class Pitch *)

\* interleave(param_1, param_2): the samples of two channels of one rate
\* alternate, the channel with the earlier offset first
interleave(param_1, param_2) ==
    LET first == IF RLeq(param_1.offset, param_2.offset) THEN param_1 ELSE param_2
        second == IF RLeq(param_1.offset, param_2.offset) THEN param_2 ELSE param_1
    IN  [i \in 1..(2 * Len(param_1.array)) |->
            IF i % 2 = 1 THEN first.array[(i + 1) \div 2] ELSE second.array[i \div 2]]

Pitch_hz(p1, p2) == p1.hz * 2

Pitch_offset_mutant(p1, p2) == p1.offset
Pitch_offset(p1, p2) == RMin(p1.offset, p2.offset)

\* degrees of pitch
PitchValues == {-2, 3}

\* offsets in [0, 1)
Offsets == { Rat(k, OffsetSteps) : k \in 0..(OffsetSteps - 1) }

InitPitch ==
    /\ node = "Pitch"
    /\ available = {"Pitch (1)", "Pitch (2)"}
    /\ \E dur \in Durations :
        \E hz \in { h \in HzSet : h * dur <= MaxLen } :
            \E a1, a2 \in Arrays(hz * dur, PitchValues), o1, o2 \in Offsets :
                params = [p1 |-> P(hz, o1, ToR(a1)), p2 |-> P(hz, o2, ToR(a2))]
    /\ fast = <<>>
    /\ pc = "derive"
    /\ self = NoSelf
    /\ locals = None
    /\ requests = 0
    /\ outcome = ""

Pitch_derive ==
    /\ node = "Pitch" /\ pc = "derive"
    /\ self' = [hz |-> Pitch_hz(params.p1, params.p2),
                offset |-> Pitch_offset(params.p1, params.p2),
                mask |-> nomask,
                array |-> interleave(params.p1, params.p2)]
    /\ pc' = "done"
    /\ UNCHANGED <<node, available, params, fast, locals, requests, outcome>>

NextPitch == Pitch_derive

SpecPitch == InitPitch /\ [][NextPitch]_vars

\* C7: the channel Pitch publishes has twice the rate of its inputs and the
\* smaller of the two input offsets, whichever input holds it.
C7_PitchRateAndOffset ==
    (node = "Pitch" /\ pc = "done") =>
        /\ self.hz = 2 * params.p1.hz
        /\ self.hz = 2 * params.p2.hz
        /\ self.offset \in {params.p1.offset, params.p2.offset}
        /\ RLeq(self.offset, params.p1.offset)
        /\ RLeq(self.offset, params.p2.offset)

\* C7 witness: 'Pitch (2)' holds the smaller offset and Pitch published it
C7_Witness ==
    /\ node = "Pitch" /\ pc = "done"
    /\ RLess(params.p2.offset, params.p1.offset)
    /\ self.offset = params.p2.offset
    /\ self.hz = 2 * params.p1.hz
    /\ Len(self.array) = 2 * Len(params.p1.array)

----------------------------------------------------------------------------
(* classes EngN1Average, EngN1Minimum, EngN2Average *)

\* vstack_params(*params): the arrays of the parameters that are not None,
\* stacked in argument order
RECURSIVE vstack_params(_)
vstack_params(ps) ==
    IF ps = <<>> THEN <<>>
    ELSE IF Head(ps) = None THEN vstack_params(Tail(ps))
    ELSE <<Head(ps).array>> \o vstack_params(Tail(ps))

RECURSIVE ColumnSum(_, _)
ColumnSum(rows, i) ==
    IF rows = <<>> THEN R(0) ELSE RAdd(Head(rows)[i], ColumnSum(Tail(rows), i))

RECURSIVE ColumnMin(_, _)
ColumnMin(rows, i) ==
    IF Len(rows) = 1 THEN rows[1][i] ELSE RMin(Head(rows)[i], ColumnMin(Tail(rows), i))

\* np.ma.average(engines, axis=0)
average0(rows) ==
    [i \in 1..Len(rows[1]) |-> RDiv(ColumnSum(rows, i), R(Len(rows)))]

\* np.ma.min(engines, axis=0)
min0(rows) == [i \in 1..Len(rows[1]) |-> ColumnMin(rows, i)]

EngN1_deps == {"Eng (1) N1", "Eng (2) N1", "Eng (3) N1", "Eng (4) N1"}
EngN2_deps == {"Eng (1) N2", "Eng (2) N2", "Eng (3) N2", "Eng (4) N2"}

\* the name of engine k's channel among the dependencies of a node
EngName(nd, k) ==
    IF nd = "EngN2Average"
    THEN <<"Eng (1) N2", "Eng (2) N2", "Eng (3) N2", "Eng (4) N2">>[k]
    ELSE <<"Eng (1) N1", "Eng (2) N1", "Eng (3) N1", "Eng (4) N1">>[k]

\* can_operate returns True, or falls off its end and returns None
EngN1Average_can_operate_mutant(avail) ==
    IF \A d \in EngN1_deps : d \in avail THEN "True" ELSE "None"
EngN1Average_can_operate(avail) ==
    IF \E d \in EngN1_deps : d \in avail THEN "True" ELSE "None"

EngN1Minimum_can_operate(avail) ==
    IF \E d \in EngN1_deps : d \in avail THEN "True" ELSE "None"

EngN2Average_can_operate(avail) ==
    IF \E d \in EngN2_deps : d \in avail THEN "True" ELSE "None"

EngN1Average_run(eng1, eng2, eng3, eng4) ==
    average0(vstack_params(<<eng1, eng2, eng3, eng4>>))

EngN1Minimum_run(eng1, eng2, eng3, eng4) ==
    min0(vstack_params(<<eng1, eng2, eng3, eng4>>))

EngN2Average_run(eng1, eng2, eng3, eng4) ==
    average0(vstack_params(<<eng1, eng2, eng3, eng4>>))

\* percent of shaft speed
EngValues == {50, 81}

EngNodes == {"EngN1Average", "EngN1Minimum", "EngN2Average"}

InitEng ==
    /\ node \in EngNodes
    /\ available \in SUBSET (IF node = "EngN2Average" THEN EngN2_deps ELSE EngN1_deps)
    /\ \E dur \in Durations :
        \E hz \in { h \in HzSet : h * dur <= MaxLen } :
            LET chans == { P(hz, 0, ToR(a)) : a \in Arrays(hz * dur, EngValues) }
            IN  \E e1 \in Given(available, EngName(node, 1), chans),
                   e2 \in Given(available, EngName(node, 2), chans),
                   e3 \in Given(available, EngName(node, 3), chans),
                   e4 \in Given(available, EngName(node, 4), chans) :
                    params = [eng1 |-> e1, eng2 |-> e2, eng3 |-> e3, eng4 |-> e4]
    /\ fast = <<>>
    /\ pc = "resolve"
    /\ self = NoSelf
    /\ locals = None
    /\ requests = 0
    /\ outcome = ""

\* the resolver computes a node whose can_operate returns a true value
Eng_resolved(answer) ==
    /\ pc = "resolve"
    /\ pc' = IF answer = "True" THEN "derive" ELSE "skipped"
    /\ UNCHANGED <<node, available, params, fast, self, locals, requests, outcome>>

Eng_derived(array) ==
    /\ pc = "derive"
    /\ self' = [self EXCEPT !.array = array]
    /\ pc' = "done"
    /\ UNCHANGED <<node, available, params, fast, locals, requests, outcome>>

EngN1Average_resolve ==
    node = "EngN1Average" /\ Eng_resolved(EngN1Average_can_operate(available))

EngN1Average_derive ==
    /\ node = "EngN1Average"
    /\ Eng_derived(EngN1Average_run(params.eng1, params.eng2, params.eng3, params.eng4))

EngN1Minimum_resolve ==
    node = "EngN1Minimum" /\ Eng_resolved(EngN1Minimum_can_operate(available))

EngN1Minimum_derive ==
    /\ node = "EngN1Minimum"
    /\ Eng_derived(EngN1Minimum_run(params.eng1, params.eng2, params.eng3, params.eng4))

EngN2Average_resolve ==
    node = "EngN2Average" /\ Eng_resolved(EngN2Average_can_operate(available))

EngN2Average_derive ==
    /\ node = "EngN2Average"
    /\ Eng_derived(EngN2Average_run(params.eng1, params.eng2, params.eng3, params.eng4))

NextEng ==
    \/ EngN1Average_resolve \/ EngN1Average_derive
    \/ EngN1Minimum_resolve \/ EngN1Minimum_derive
    \/ EngN2Average_resolve \/ EngN2Average_derive

SpecEng == InitEng /\ [][NextEng]_vars

\* the engines whose channel is available for the recording
EnginesPresent == { k \in 1..4 : EngName(node, k) \in available }

EngParam(k) == <<params.eng1, params.eng2, params.eng3, params.eng4>>[k]

RECURSIVE SumOver(_, _)
SumOver(ks, i) ==
    IF ks = {} THEN R(0)
    ELSE LET k == CHOOSE x \in ks : TRUE
         IN  RAdd(EngParam(k).array[i], SumOver(ks \ {k}, i))

\* C8: EngN1Average, EngN1Minimum and EngN2Average are computed for every
\* non-empty set of available engine channels and skipped when none is
\* available, and the average or minimum published is taken over exactly the
\* channels that are available.
C8_AnyEngineSubset ==
    node \in EngNodes =>
        /\ pc = "skipped" => EnginesPresent = {}
        /\ (pc # "resolve" /\ EnginesPresent = {}) => pc = "skipped"
        /\ pc = "done" =>
            \A i \in 1..Len(self.array) :
                IF node = "EngN1Minimum"
                THEN /\ \E k \in EnginesPresent : self.array[i] = EngParam(k).array[i]
                     /\ \A k \in EnginesPresent : RLeq(self.array[i], EngParam(k).array[i])
                ELSE RMul(self.array[i], R(Cardinality(EnginesPresent)))
                        = SumOver(EnginesPresent, i)
        /\ pc = "done" =>
            \E k \in EnginesPresent : Len(self.array) = Len(EngParam(k).array)

\* C8 witness: engines 2 and 4 alone are recorded, with different samples,
\* and the node published their reduction
C8_Witness ==
    /\ node \in EngNodes /\ pc = "done"
    /\ EnginesPresent = {2, 4}
    /\ params.eng2.array # params.eng4.array
    /\ Len(self.array) = Len(params.eng2.array)

----------------------------------------------------------------------------
(* analysis_engine.api_handler_analysis_engine: the lookup handlers *)

\* an optional argument: its default None, or a value
Absent == [given |-> FALSE, v |-> 0]
Some(x) == [given |-> TRUE, v |-> x]

\* Python truthiness of an optional number: None and 0 are false
TruthyNumber(o) == o.given /\ o.v # 0

NoUrl == [path |-> <<>>]

\* self._attempt_request(url): the response decoded, or NotFoundError when
\* the service answers that there is no such record
attempt_request(url, answer) ==
    IF answer = "not found"
    THEN [raised |-> "NotFoundError", url |-> url]
    ELSE [raised |-> "", url |-> url, response |-> answer]

Answers == {"found", "not found"}

(* class AnalysisEngineAPIHandlerDummy *)

Dummy_get_airport_mutant(code) == [raised |-> "", url |-> NoUrl, response |-> "found"]
Dummy_get_airport(code) == [raised |-> "NotFoundError", url |-> NoUrl]

Dummy_get_nearest_airport(latitude, longitude) ==
    [raised |-> "NotFoundError", url |-> NoUrl]

Dummy_get_nearest_runway(airport, heading, latitude, longitude, ilsfreq, hint) ==
    [raised |-> "NotFoundError", url |-> NoUrl]

(* class AnalysisEngineAPIHandlerHTTP *)

HTTP_get_airport(code, answer) ==
    attempt_request([path |-> <<"api", "airport", code>>], answer)

HTTP_get_nearest_airport(latitude, longitude, answer) ==
    attempt_request([path |-> <<"api", "airport", "nearest.json">>,
                     ll |-> <<latitude, longitude>>], answer)

HTTP_get_nearest_runway(airport, heading, latitude, longitude, ilsfreq, hint, answer) ==
    attempt_request(
        [path |-> <<"api", "airport", airport, "runway", "nearest.json">>,
         heading |-> heading,
         ll |-> IF TruthyNumber(latitude) /\ TruthyNumber(longitude)
                THEN Some(<<latitude.v, longitude.v>>) ELSE Absent,
         ilsfreq |-> IF TruthyNumber(ilsfreq) THEN Some(ilsfreq.v * 1000) ELSE Absent,
         hint |-> IF hint \in {"takeoff", "landing", "approach"} THEN Some(hint) ELSE Absent],
        answer)

\* arguments of the lookups: degrees, airport codes, MHz
Codes == {"EGLL"}
Latitudes == {-91, 0, 51, 91}
Longitudes == {-181, 0, 181}
Headings == {-1, 90, 361}
IlsFreqs == {Absent, Some(110)}
Hints == {"landing", "taxi"}

Handlers == {"AnalysisEngineAPIHandlerDummy", "AnalysisEngineAPIHandlerHTTP"}

InitAPI ==
    /\ node \in Handlers
    /\ available = {}
    /\ params = None
    /\ fast = <<>>
    /\ pc = "idle"
    /\ self = NoSelf
    /\ locals = [calls |-> 0, method |-> "", args |-> None, url |-> NoUrl]
    /\ requests = 0
    /\ outcome = ""

\* a lookup has returned or raised: what the caller sees, and the request
\* issued for it if any
Served(method, args, r) ==
    /\ locals.calls < MaxCalls
    /\ locals' = [calls |-> locals.calls + 1, method |-> method, args |-> args,
                  url |-> r.url]
    /\ requests' = IF r.url = NoUrl THEN requests ELSE requests + 1
    /\ outcome' = IF r.raised # "" THEN r.raised ELSE "returned"
    /\ UNCHANGED <<node, available, params, fast, pc, self>>

Dummy_get_airport_call ==
    /\ node = "AnalysisEngineAPIHandlerDummy"
    /\ \E code \in Codes :
        Served("get_airport", [code |-> code], Dummy_get_airport(code))

Dummy_get_nearest_airport_call ==
    /\ node = "AnalysisEngineAPIHandlerDummy"
    /\ \E lat \in Latitudes, lon \in Longitudes :
        Served("get_nearest_airport", [latitude |-> Some(lat), longitude |-> Some(lon)],
               Dummy_get_nearest_airport(lat, lon))

Dummy_get_nearest_runway_call ==
    /\ node = "AnalysisEngineAPIHandlerDummy"
    /\ \E airport \in Codes, heading \in Headings,
          lat \in {Absent} \cup { Some(x) : x \in Latitudes },
          lon \in {Absent} \cup { Some(x) : x \in Longitudes },
          ilsfreq \in IlsFreqs, hint \in Hints :
        Served("get_nearest_runway",
               [airport |-> airport, heading |-> heading, latitude |-> lat,
                longitude |-> lon, ilsfreq |-> ilsfreq, hint |-> hint],
               Dummy_get_nearest_runway(airport, heading, lat, lon, ilsfreq, hint))

HTTP_get_airport_call ==
    /\ node = "AnalysisEngineAPIHandlerHTTP"
    /\ \E code \in Codes, answer \in Answers :
        Served("get_airport", [code |-> code], HTTP_get_airport(code, answer))

HTTP_get_nearest_airport_call ==
    /\ node = "AnalysisEngineAPIHandlerHTTP"
    /\ \E lat \in Latitudes, lon \in Longitudes, answer \in Answers :
        Served("get_nearest_airport", [latitude |-> Some(lat), longitude |-> Some(lon)],
               HTTP_get_nearest_airport(lat, lon, answer))

HTTP_get_nearest_runway_call ==
    /\ node = "AnalysisEngineAPIHandlerHTTP"
    /\ \E airport \in Codes, heading \in Headings,
          lat \in {Absent} \cup { Some(x) : x \in Latitudes },
          lon \in {Absent} \cup { Some(x) : x \in Longitudes },
          ilsfreq \in IlsFreqs, hint \in Hints, answer \in Answers :
        Served("get_nearest_runway",
               [airport |-> airport, heading |-> heading, latitude |-> lat,
                longitude |-> lon, ilsfreq |-> ilsfreq, hint |-> hint],
               HTTP_get_nearest_runway(airport, heading, lat, lon, ilsfreq, hint, answer))

NextAPI ==
    \/ Dummy_get_airport_call
    \/ Dummy_get_nearest_airport_call
    \/ Dummy_get_nearest_runway_call
    \/ HTTP_get_airport_call
    \/ HTTP_get_nearest_airport_call
    \/ HTTP_get_nearest_runway_call

SpecAPI == InitAPI /\ [][NextAPI]_vars

\* C9: every lookup on the dummy handler, whatever its arguments and
\* whatever lookups came before, raises NotFoundError and returns no record.
C9_DummyAlwaysNotFound ==
    (node = "AnalysisEngineAPIHandlerDummy" /\ locals.calls > 0) =>
        (outcome = "NotFoundError" /\ outcome # "returned")

\* C9 witness: the dummy handler has served MaxCalls lookups, the last one
\* for a runway, and raised NotFoundError
C9_Witness ==
    /\ node = "AnalysisEngineAPIHandlerDummy"
    /\ locals.calls = MaxCalls
    /\ locals.method = "get_nearest_runway"
    /\ outcome = "NotFoundError"

\* the bounds the interface documents for InvalidAPIInputError
LatitudeInBounds(lat) == -90 <= lat /\ lat <= 90
LongitudeInBounds(lon) == -180 <= lon /\ lon <= 180
HeadingInBounds(heading) == 0 <= heading /\ heading <= 360

\* the last lookup was handed a coordinate or a heading out of bounds
LastLookupOutOfBounds ==
    \/ /\ locals.method = "get_nearest_airport"
       /\ \/ ~LatitudeInBounds(locals.args.latitude.v)
          \/ ~LongitudeInBounds(locals.args.longitude.v)
    \/ /\ locals.method = "get_nearest_runway"
       /\ \/ ~HeadingInBounds(locals.args.heading)
          \/ locals.args.latitude.given /\ ~LatitudeInBounds(locals.args.latitude.v)
          \/ locals.args.longitude.given /\ ~LongitudeInBounds(locals.args.longitude.v)

\* C10 as stated: a nearest-airport or nearest-runway lookup on the HTTP
\* handler with a latitude, longitude or heading out of bounds raises the
\* invalid-input error and hands no url to _attempt_request.
C10_OutOfBoundsRejectedBeforeRequest ==
    (node = "AnalysisEngineAPIHandlerHTTP" /\ LastLookupOutOfBounds) =>
        (outcome = "InvalidAPIInputError" /\ locals.url = NoUrl)

====
